---- MODULE Spec2Model ----
(***************************************************************************)
(* Credential and session lifecycle of the NestJS starter: the OTP ledger  *)
(* (OtpService), and the refresh-token session store (AuthService).        *)
(*                                                                         *)
(* Every service method is an async function: it runs from one awaited     *)
(* repository call to the next, and calls of other requests interleave at  *)
(* each await.  One action of the model is one repository statement        *)
(* together with the synchronous code that follows it up to the next       *)
(* awaited repository statement.  bcrypt hashing and comparing are awaited *)
(* too but touch no shared state, so they sit inside the step that uses    *)
(* their result.                                                           *)
(*                                                                         *)
(* Time is in seconds (Date values divided by 1000).                       *)
(***************************************************************************)
EXTENDS Integers, FiniteSets, Sequences, TLC

VARIABLES
    now,            \* the clock read by new Date() / Date.now()
    ticks,          \* how many times the clock has advanced
    calls,          \* how many service calls have been made
    users,          \* table users
    otps,           \* table otps
    nextOtpId,      \* next generated primary key of otps
    refreshTokens,  \* table refresh_tokens
    nextTokenId,    \* next generated primary key of refresh_tokens
    pc,             \* per request slot: the statement it is about to run
    call,           \* per request slot: arguments and locals of the running call
    ret,            \* the outcome of the call that returned in the last step, if one did
    issued,         \* history: every OTP record ever inserted
    consumed,       \* history: <<otp id, n>> for the n-th verifyEmailOtp that returned true
    rotated,        \* history: <<token, new token>> for every refreshToken that returned tokens
    killed,         \* history: ids of the sessions that were active when a logoutFromAllDevices
                    \* of their user ran
    events          \* history: <<"logout", token>> for every logout that returned,
                    \* <<"password", user id, password>> for the password a register
                    \* call was given for the user it created

vars == <<now, ticks, calls, users, otps, nextOtpId, refreshTokens, nextTokenId,
          pc, call, ret, issued, consumed, rotated, killed, events>>

otpVars == <<calls, otps, nextOtpId, issued, consumed>>
sessionVars == <<users, refreshTokens, nextTokenId, rotated, killed>>

----------------------------------------------------------------------------
(* Bounds of the model *)

MaxTicks == 2
MaxCalls == 4
MaxFlows == 3
MaxLapses == 1

(* Program constants *)

CooldownSeconds == 60
OtpExpiryMinutes == 10
RefreshTokenDays == 30

OtpExpirySeconds == OtpExpiryMinutes * 60
RefreshTokenSeconds == RefreshTokenDays * 86400

Procs == {1, 2}
Emails == {"a@x.com"}
\* generateOtp: Math.floor(100000 + Math.random() * 900000), two of its values
Codes == {100000, 999999}
Passwords == {"Password1", "Password2"}

EmailVerification == "email_verification"

----------------------------------------------------------------------------
(* Pure helpers *)

\* bcrypt.hash: one-way, salted; the model keeps only what compare can tell
BcryptHash(plain) == <<"bcrypt", plain>>

\* C31 mutant: the comparison accepts every password
AnyPasswordValid(plain, hashed) == TRUE

\* bcrypt.compare(plain, hashed)
BcryptCompare(plain, hashed) == hashed = BcryptHash(plain)

\* OtpService.hashOtp / verifyOtp
HashOtp(otp) == BcryptHash(otp)

\* C19 mutant: the comparison accepts every code
AnyCodeValid(otp, hashedOtp) == TRUE

VerifyOtp(otp, hashedOtp) == BcryptCompare(otp, hashedOtp)

\* AuthService.hashToken: sha256 hex digest
HashToken(token) == <<"sha256", token>>

\* rows of a set with the greatest createdAt: what findOne with
\* order createdAt DESC may return (ties are the database's choice)
Latest(rows) == {r \in rows : \A s \in rows : s.createdAt <= r.createdAt}

\* C9 mutant: the expiry comparison never reports a row as expired
NeverExpired(row, t) == FALSE

\* expiresAt < new Date()
IsExpired(row, t) == row.expiresAt < t

----------------------------------------------------------------------------
(* Request slots *)

\* arguments (email, code, token, uid), the id of the entity read (rec), and
\* what the call observed when it read the store:
\*   conc   issue: another createEmailVerificationOtp for the same email, running
\*                 at the same time as this call, has succeeded
\*   again  issue: an issuance for the email had succeeded less than the cooldown
\*                 before the call began and before its rate-limit check;
\*          verify: the same (email, code) had already returned true when the
\*                 call began;
\*          refresh: a refresh of the same token had already returned tokens;
\*          logout: a logout of the same token had already returned
\*   stale  verify: the record read had already been consumed by a verify that
\*                 returned true;
\*          refresh: the session of the token was active when a
\*                 logoutFromAllDevices of its user ran;
\*          verifyEmail: the user of the email was verified already when the
\*                 call began;
\*          revokeSession: the session named is an active session of another
\*                 user
\*   newer  verify: a later issuance for the same email had already succeeded,
\*                 with another code than the one supplied
\*   late   the entity read was past its expiresAt
\*   loggedOut  refresh: a logout of the same token had already returned
\*   match  login: the password supplied is the password of the user found;
\*          verifyEmail: the code supplied is the code of the record read
\*   marked verifyEmail: the call has marked an OTP record used;
\*          refresh: the call has revoked the session of its token in order
\*                 to rotate it
\*   swept  verify: the cleanupExpiredOtps of the call deleted records
\*   undelivered  register, resendOtp: sendOtpEmail threw;
\*          verifyEmail: the welcome mail could not be sent
\* the AuthService method a nested OtpService call returns to (op), the
\* password given to register (password),
\* and, for a call that throws, the exception (err) and its message (msg)
NoCall == [email |-> "", code |-> 0, token |-> 0, uid |-> 0, rec |-> 0,
           conc |-> FALSE, again |-> FALSE, stale |-> FALSE, newer |-> FALSE,
           late |-> FALSE, loggedOut |-> FALSE, match |-> FALSE, marked |-> FALSE,
           undelivered |-> FALSE, swept |-> FALSE, op |-> "", password |-> "",
           err |-> "", msg |-> ""]

NoRet == [op |-> "none", ok |-> FALSE, email |-> "", code |-> 0, token |-> 0,
          uid |-> 0, rec |-> 0, conc |-> FALSE, again |-> FALSE, stale |-> FALSE,
          newer |-> FALSE, late |-> FALSE, loggedOut |-> FALSE, match |-> FALSE,
          marked |-> FALSE, undelivered |-> FALSE, swept |-> FALSE, err |-> "",
          msg |-> "", out |-> 0]

\* the outcome of a call whose arguments and observations are c
Ret(c, op, ok, out) ==
    [op |-> op, ok |-> ok, email |-> c.email, code |-> c.code,
     token |-> c.token, uid |-> c.uid, rec |-> c.rec,
     conc |-> c.conc, again |-> c.again, stale |-> c.stale, newer |-> c.newer,
     late |-> c.late, loggedOut |-> c.loggedOut, match |-> c.match,
     marked |-> c.marked, undelivered |-> c.undelivered, swept |-> c.swept,
     err |-> c.err, msg |-> c.msg, out |-> out]

\* throw new <err>(<msg>) in a call whose arguments and observations are c
Throw(c, err, msg) == [c EXCEPT !.err = err, !.msg = msg]

\* the call of slot p returns or throws
Finish(p, c, op, ok, out) ==
    /\ pc' = [pc EXCEPT ![p] = "idle"]
    /\ ret' = Ret(c, op, ok, out)
    /\ call' = [call EXCEPT ![p] = NoCall]

\* a new request takes the lowest idle slot (slots are interchangeable)
Free(p) == pc[p] = "idle" /\ \A q \in Procs : q < p => pc[q] # "idle"

IssuePcs == {"issueFind", "issueUpdate", "issueSave"}
\* slots other than p that are inside createEmailVerificationOtp for email
Issuing(p, email) == {q \in Procs \ {p} : pc[q] \in IssuePcs /\ call[q].email = email}

----------------------------------------------------------------------------
(* OtpService *)

\* cleanupExpiredOtps: delete({ expiresAt: LessThan(new Date()) })
CleanupExpiredOtps == {r \in otps : ~IsExpired(r, now)}

\* standalone call of cleanupExpiredOtps
Sweep ==
    /\ \E r \in otps : IsExpired(r, now)
    /\ otps' = CleanupExpiredOtps
    /\ ret' = NoRet
    /\ UNCHANGED <<events, now, ticks, calls, nextOtpId, issued, consumed, pc, call, sessionVars>>

\* history: an issuance for email succeeded less than the cooldown before t
IssuedWithin(email, t) ==
    \E r \in issued : r.email = email /\ t < r.createdAt + CooldownSeconds

\* createEmailVerificationOtp, entry and first statement: cleanupExpiredOtps
IssueCleanup(p, email) ==
    /\ Free(p)
    /\ calls < MaxCalls
    /\ calls' = calls + 1
    /\ otps' = CleanupExpiredOtps
    /\ pc' = [pc EXCEPT ![p] = "issueFind"]
    /\ call' = [call EXCEPT ![p] = [NoCall EXCEPT !.email = email,
                                        !.again = IssuedWithin(email, now)]]
    /\ ret' = NoRet
    /\ UNCHANGED <<events, now, ticks, nextOtpId, issued, consumed, sessionVars>>

\* the rate-limit query: findOne({ email, type, createdAt: LessThan(oneMinuteAgo) },
\* order createdAt DESC); the empty set stands for null
RecentOtp(email, oneMinuteAgo) ==
    Latest({r \in otps : /\ r.email = email
                         /\ r.type = EmailVerification
                         /\ r.createdAt < oneMinuteAgo})

\* C40 mutant: one issuance for the email blocks every later one
RateLimitedForever(email, t) == \E r \in issued : r.email = email

\* if (recentOtp && recentOtp.createdAt > oneMinuteAgo) throw BadRequestException
RateLimited(email, t) ==
    LET oneMinuteAgo == t - CooldownSeconds
    IN  \E recentOtp \in RecentOtp(email, oneMinuteAgo) : recentOtp.createdAt > oneMinuteAgo

\* createEmailVerificationOtp, the rate-limit check
IssueFind(p) ==
    /\ pc[p] = "issueFind"
    /\ LET c == [call[p] EXCEPT !.again = /\ call[p].again
                                          /\ IssuedWithin(call[p].email, now)]
       IN  IF RateLimited(c.email, now)
           THEN Finish(p, c, "issue", FALSE, 0)
           ELSE /\ pc' = [pc EXCEPT ![p] = "issueUpdate"]
                /\ call' = [call EXCEPT ![p] = c]
                /\ ret' = NoRet
    /\ UNCHANGED <<events, now, ticks, otpVars, sessionVars>>

\* update({ email, type, used: false }, { used: true })
MarkUnusedUsed(email) ==
    {IF r.email = email /\ r.type = EmailVerification /\ ~r.used
     THEN [r EXCEPT !.used = TRUE] ELSE r : r \in otps}

\* createEmailVerificationOtp, invalidating the earlier codes
IssueUpdate(p) ==
    /\ pc[p] = "issueUpdate"
    /\ otps' = MarkUnusedUsed(call[p].email)
    /\ pc' = [pc EXCEPT ![p] = "issueSave"]
    /\ ret' = NoRet
    /\ UNCHANGED <<events, now, ticks, calls, nextOtpId, issued, consumed, call, sessionVars>>

\* the entity createEmailVerificationOtp saves
NewOtp(id, email, otp, t) ==
    [id |-> id, email |-> email, hashedOtp |-> HashOtp(otp),
     expiresAt |-> t + OtpExpirySeconds, used |-> FALSE,
     type |-> EmailVerification, createdAt |-> t]

\* createEmailVerificationOtp, generateOtp and save; returns the plain otp
IssueSave(p) ==
    /\ pc[p] = "issueSave"
    /\ \E otp \in Codes :
         LET row == NewOtp(nextOtpId, call[p].email, otp, now)
         IN  /\ otps' = otps \cup {row}
             /\ issued' = issued \cup {row}
             /\ nextOtpId' = nextOtpId + 1
             /\ pc' = [pc EXCEPT ![p] = "idle"]
             /\ ret' = Ret(call[p], "issue", TRUE, row.id)
             /\ call' = [q \in Procs |->
                           IF q = p THEN NoCall
                           ELSE IF q \in Issuing(p, call[p].email)
                                THEN [call[q] EXCEPT !.conc = TRUE]
                                ELSE call[q]]
    /\ UNCHANGED <<events, now, ticks, calls, consumed, sessionVars>>

\* history: a verifyEmailOtp(email, code) has already returned true
VerifiedBefore(email, code) ==
    \E c \in consumed : \E r \in issued :
        r.id = c[1] /\ r.email = email /\ r.hashedOtp = HashOtp(code)

\* verifyEmailOtp, entry and first statement: cleanupExpiredOtps
VerifyCleanup(p, email, code) ==
    /\ Free(p)
    /\ calls < MaxCalls
    /\ calls' = calls + 1
    /\ otps' = CleanupExpiredOtps
    /\ pc' = [pc EXCEPT ![p] = "verifyFind"]
    /\ call' = [call EXCEPT ![p] = [NoCall EXCEPT !.email = email, !.code = code,
                                        !.again = VerifiedBefore(email, code),
                                        !.swept = CleanupExpiredOtps # otps]]
    /\ ret' = NoRet
    /\ UNCHANGED <<events, now, ticks, nextOtpId, issued, consumed, sessionVars>>

\* findOne({ email, type, used: false }, order createdAt DESC)
UnusedOtp(email) ==
    Latest({r \in otps : r.email = email /\ r.type = EmailVerification /\ ~r.used})

\* history: an issuance for row's email succeeded after row was issued, and
\* code is the code of none of those later issuances
Superseded(row, code) ==
    LET later == {r \in issued : r.email = row.email /\ r.id > row.id}
    IN  later # {} /\ \A r \in later : ~VerifyOtp(code, r.hashedOtp)

\* verifyEmailOtp, the lookup, the expiry check and the comparison
VerifyFind(p) ==
    /\ pc[p] = "verifyFind"
    /\ IF UnusedOtp(call[p].email) = {}
       THEN Finish(p, call[p], "verify", FALSE, 0)
       ELSE \E otpEntity \in UnusedOtp(call[p].email) :
              LET c == [call[p] EXCEPT
                          !.rec = otpEntity.id,
                          !.stale = \E x \in consumed : x[1] = otpEntity.id,
                          !.newer = Superseded(otpEntity, call[p].code),
                          !.late = otpEntity.expiresAt < now]
              IN  IF IsExpired(otpEntity, now)
                  THEN Finish(p, c, "verify", FALSE, 0)
                  ELSE IF VerifyOtp(c.code, otpEntity.hashedOtp)
                       THEN /\ pc' = [pc EXCEPT ![p] = "verifyUpdate"]
                            /\ call' = [call EXCEPT ![p] = c]
                            /\ ret' = NoRet
                       ELSE Finish(p, c, "verify", FALSE, 0)
    /\ UNCHANGED <<events, now, ticks, otpVars, sessionVars>>

\* C4 mutant: the update after a successful comparison changes no row
MarkUsedNoRow(id) == otps

\* update(otpEntity.id, { used: true })
MarkUsed(id) == {IF r.id = id THEN [r EXCEPT !.used = TRUE] ELSE r : r \in otps}

\* verifyEmailOtp, marking the record used and returning true
VerifyUpdate(p) ==
    /\ pc[p] = "verifyUpdate"
    /\ otps' = MarkUsed(call[p].rec)
    /\ consumed' = consumed \cup {<<call[p].rec, Cardinality(consumed) + 1>>}
    /\ Finish(p, call[p], "verify", TRUE, call[p].rec)
    /\ UNCHANGED <<events, now, ticks, calls, nextOtpId, issued, sessionVars>>

----------------------------------------------------------------------------
(* The clock *)

Advance(d) ==
    /\ ticks < MaxTicks
    /\ now' = now + d
    /\ ticks' = ticks + 1

TickOtp ==
    /\ Advance(OtpExpirySeconds)
    /\ ret' = NoRet
    /\ UNCHANGED <<events, otpVars, sessionVars, pc, call>>

----------------------------------------------------------------------------
(* The OTP ledger on its own: an empty otps table, two request slots *)

InitOtp ==
    /\ now = 0
    /\ ticks = 0
    /\ calls = 0
    /\ users = {}
    /\ otps = {}
    /\ nextOtpId = 1
    /\ refreshTokens = {}
    /\ nextTokenId = 1
    /\ pc = [p \in Procs |-> "idle"]
    /\ call = [p \in Procs |-> NoCall]
    /\ ret = NoRet
    /\ issued = {}
    /\ consumed = {}
    /\ rotated = {}
    /\ killed = {}
    /\ events = {}

NextOtp ==
    \/ \E p \in Procs, email \in Emails : IssueCleanup(p, email)
    \/ \E p \in Procs : IssueFind(p)
    \/ \E p \in Procs : IssueUpdate(p)
    \/ \E p \in Procs : IssueSave(p)
    \/ \E p \in Procs, email \in Emails, code \in Codes : VerifyCleanup(p, email, code)
    \/ \E p \in Procs : VerifyFind(p)
    \/ \E p \in Procs : VerifyUpdate(p)
    \/ Sweep
    \/ TickOtp

SpecOtp == InitOtp /\ [][NextOtp]_vars


----------------------------------------------------------------------------
(* Claims about the OTP ledger, checked under SpecOtp *)

\* a call of op returned in the last step
Returned(op) == ret.op = op

IssuedRow(id) == CHOOSE r \in issued : r.id = id

\* C3: when two verifyEmailOtp calls present the same correct code for the
\* same email concurrently, at most one of them returns true: no OTP record
\* is consumed by two calls.
C3_ConsumedByAtMostOneCall ==
    \A x \in consumed : \A y \in consumed : x[1] = y[1] => x = y

\* C4: an OTP is consumable at most once: a verifyEmailOtp that reads the
\* store after a verifyEmailOtp has returned true for an OTP record never
\* returns true for that record again (a later true for the same email and
\* code value can only come from another record issued with that value).
C4_ConsumedAtMostOnce ==
    /\ \A p \in Procs : pc[p] = "verifyUpdate" => ~call[p].stale
    /\ Returned("verify") /\ ret.ok => ~ret.stale

\* C4 as first stated: after verifyEmailOtp(email, code) has returned true,
\* a second call with the same email and code returns false.
C4_SecondVerifyFails == Returned("verify") /\ ret.again => ~ret.ok

\* C4 witness: after verifyEmailOtp(email, code) had returned true, a second
\* call with the same email and code read the store and returned false.
C4_Witness == Returned("verify") /\ ret.again /\ ~ret.ok

\* C5: at most one unused, unexpired OTP record per (email, purpose), in
\* every reachable state.
C5_AtMostOneValidOtp ==
    \A email \in Emails :
        Cardinality({r \in otps : /\ r.email = email
                                  /\ r.type = EmailVerification
                                  /\ ~r.used
                                  /\ ~IsExpired(r, now)}) <= 1

\* C6: an issue that begins, and runs its rate-limit check, less than the
\* cooldown after an issue for the same email succeeded is rejected and
\* stores no code.
C6_RateLimited == Returned("issue") /\ ret.again => ~ret.ok

\* C7: when two issue calls for the same email run concurrently, at most
\* one of them succeeds: an issue returns no code when an issue for the same
\* email that ran at the same time has succeeded.
C7_ConcurrentIssueOnce == Returned("issue") /\ ret.conc => ~ret.ok

\* C8: after an issue has succeeded for an email, a verify with a code that
\* was issued earlier for that email (and is not the new code) returns false.
C8_NewOtpInvalidatesEarlier == Returned("verify") /\ ret.newer => ~ret.ok

\* C9: a verify that reads an OTP record past its expiresAt returns false,
\* whether the code is right or wrong and whether or not expired records
\* have been swept.
C9_ExpiredOtpFails ==
    /\ \A p \in Procs : pc[p] = "verifyUpdate" => ~call[p].late
    /\ Returned("verify") /\ ret.late => ~ret.ok

\* C9 witness: a verify read an expired record that the sweep had not
\* removed, the supplied code was the right one, and it returned false.
C9_Witness ==
    /\ Returned("verify") /\ ret.late /\ ~ret.ok
    /\ VerifyOtp(ret.code, IssuedRow(ret.rec).hashedOtp)

\* C33: a verifyEmailOtp that returns false has changed no row of otps: it
\* has marked none used (it returns false before the update) and its
\* cleanupExpiredOtps has deleted none.
C33_FailedVerifyNoWrite == Returned("verify") /\ ~ret.ok => ~ret.swept

----------------------------------------------------------------------------
(* AuthService: login and the refresh-token sessions *)

\* the exceptions the services throw, and the messages of login
Unauthorized == "UnauthorizedException"
BadRequest == "BadRequestException"
NotFound == "NotFoundException"
Conflict == "ConflictException"
QueryFailed == "QueryFailedError"
InvalidCredentials == "Invalid email or password"
PleaseVerify == "Please verify your email before logging in"

\* C13 mutant: login skips the emailVerified check
AnyUserMayLogin(user) == TRUE

\* login: user.emailVerified, the condition of the check at line 195
EmailVerified(user) == user.emailVerified

\* usersService.findByEmailWithPassword; the empty set stands for null
FindByEmail(email) == {u \in users : u.email = email}

\* the empty string, which logout rejects (!refreshToken)
EmptyToken == 0 - 1

\* C14 mutant: the generator repeats the value it drew last
RepeatedRefreshToken == IF nextTokenId > 1 THEN nextTokenId - 1 ELSE nextTokenId

\* generateRefreshToken: crypto.randomBytes(64), a value never drawn before;
\* the n-th token drawn is the number n
GenerateRefreshToken == nextTokenId

\* the row generateTokens saves for user uid
NewRefreshToken(id, token, uid, t) ==
    [id |-> id, hashedToken |-> HashToken(token), userId |-> uid,
     expiresAt |-> t + RefreshTokenSeconds, revoked |-> FALSE, createdAt |-> t]

\* C38 mutant: generateTokens saves the session under another user id
GenerateTokensForStranger(uid) ==
    NewRefreshToken(nextTokenId, GenerateRefreshToken, uid + 1, now)

\* generateTokens: refreshTokenRepository.save of a new row; the row saved
GenerateTokens(uid) ==
    NewRefreshToken(nextTokenId, GenerateRefreshToken, uid, now)

\* login, the user lookup, the emailVerified check and bcrypt.compare
LoginFind(p, email, password) ==
    /\ Free(p)
    /\ calls < MaxCalls
    /\ calls' = calls + 1
    /\ IF FindByEmail(email) = {}
       THEN Finish(p, Throw(NoCall, Unauthorized, InvalidCredentials), "login", FALSE, 0)
       ELSE \E user \in FindByEmail(email) :
              IF ~EmailVerified(user)
              THEN Finish(p, Throw([NoCall EXCEPT !.match =
                                       BcryptCompare(password, user.password)],
                                   Unauthorized, PleaseVerify), "login", FALSE, 0)
              ELSE IF ~BcryptCompare(password, user.password)
                   THEN Finish(p, Throw(NoCall, Unauthorized, InvalidCredentials),
                               "login", FALSE, 0)
                   ELSE /\ pc' = [pc EXCEPT ![p] = "loginSave"]
                        /\ call' = [call EXCEPT ![p] = [NoCall EXCEPT !.uid = user.id]]
                        /\ ret' = NoRet
    /\ UNCHANGED <<events, now, ticks, otps, nextOtpId, issued, consumed, sessionVars>>

\* login, generateTokens: the new session is saved and the tokens returned
LoginSave(p) ==
    /\ pc[p] = "loginSave"
    /\ refreshTokens' = refreshTokens \cup {GenerateTokens(call[p].uid)}
    /\ nextTokenId' = nextTokenId + 1
    /\ Finish(p, NoCall, "login", TRUE, GenerateRefreshToken)
    /\ UNCHANGED <<events, now, ticks, otpVars, users, rotated, killed>>

\* findOne({ hashedToken, revoked: false }); the empty set stands for null
FindActiveToken(hashedToken) ==
    {r \in refreshTokens : r.hashedToken = hashedToken /\ ~r.revoked}

\* history: the session of token was active when a logoutFromAllDevices of
\* its user ran
Killed(token) ==
    \E r \in refreshTokens : r.hashedToken = HashToken(token) /\ r.id \in killed

\* C28 mutant: the relation is loaded without its join condition
AnyUser(tokenEntity) == users

\* relations: ['user']: tokenEntity.user, the row of users that the userId
\* of the token row refers to
TokenUser(tokenEntity) == {u \in users : u.id = tokenEntity.userId}

\* generateTokens: the payload signed into the access token (emailVerified
\* is left out)
JwtPayload(uid, email) == [sub |-> uid, email |-> email]

\* refreshToken, entry: the lookup by hash with the user joined, and the
\* expiry check; uid and email hold tokenEntity.user.id and
\* tokenEntity.user.email
RefreshFind(p, token) ==
    /\ Free(p)
    /\ calls < MaxCalls
    /\ calls' = calls + 1
    /\ LET c == [NoCall EXCEPT !.token = token,
                               !.again = \E x \in rotated : x[1] = token,
                               !.stale = Killed(token),
                               !.loggedOut = <<"logout", token>> \in events]
       IN  IF FindActiveToken(HashToken(token)) = {}
           THEN Finish(p, Throw(c, Unauthorized, "Invalid refresh token"),
                       "refresh", FALSE, 0)
           ELSE \E tokenEntity \in FindActiveToken(HashToken(token)) :
                \E user \in TokenUser(tokenEntity) :
                  /\ pc' = [pc EXCEPT ![p] = IF IsExpired(tokenEntity, now)
                                             THEN "refreshExpire" ELSE "refreshRevoke"]
                  /\ call' = [call EXCEPT ![p] =
                        [c EXCEPT !.rec = tokenEntity.id, !.uid = user.id,
                                  !.email = user.email,
                                  !.late = tokenEntity.expiresAt < now]]
                  /\ ret' = NoRet
    /\ UNCHANGED <<events, now, ticks, otps, nextOtpId, issued, consumed, sessionVars>>

\* C2 mutant: the update that revokes the presented token changes no row
RevokeByIdNoRow(id) == refreshTokens

\* update(id, { revoked: true })
RevokeById(id) ==
    {IF r.id = id THEN [r EXCEPT !.revoked = TRUE] ELSE r : r \in refreshTokens}

\* refreshToken, the expired branch: revoke the token and throw
RefreshExpire(p) ==
    /\ pc[p] = "refreshExpire"
    /\ refreshTokens' = RevokeById(call[p].rec)
    /\ Finish(p, Throw(call[p], Unauthorized, "Refresh token expired"),
              "refresh", FALSE, 0)
    /\ UNCHANGED <<events, now, ticks, otpVars, users, nextTokenId, rotated, killed>>

\* refreshToken, token rotation: revoke the old token
RefreshRevoke(p) ==
    /\ pc[p] = "refreshRevoke"
    /\ refreshTokens' = RevokeById(call[p].rec)
    /\ pc' = [pc EXCEPT ![p] = "refreshSave"]
    /\ call' = [call EXCEPT ![p].marked = TRUE]
    /\ ret' = NoRet
    /\ UNCHANGED <<events, now, ticks, otpVars, users, nextTokenId, rotated, killed>>

\* refreshToken, generateTokens for tokenEntity.user and return
RefreshSave(p) ==
    /\ pc[p] = "refreshSave"
    /\ refreshTokens' = refreshTokens \cup {GenerateTokens(call[p].uid)}
    /\ nextTokenId' = nextTokenId + 1
    /\ rotated' = rotated \cup {<<call[p].token, GenerateRefreshToken>>}
    /\ Finish(p, call[p], "refresh", TRUE, GenerateRefreshToken)
    /\ UNCHANGED <<events, now, ticks, otpVars, users, killed>>

\* C11 mutant: logout's update matches no row
RevokeByHashNoRow(hashedToken) == refreshTokens

\* C12 mutant: logout's update loses its where clause
RevokeEveryToken(hashedToken) == {[r EXCEPT !.revoked = TRUE] : r \in refreshTokens}

\* update({ hashedToken }, { revoked: true })
RevokeByHash(hashedToken) ==
    {IF r.hashedToken = hashedToken THEN [r EXCEPT !.revoked = TRUE] ELSE r
     : r \in refreshTokens}

\* logout: BadRequest when no token is given, else one update statement
Logout(p, token) ==
    /\ Free(p)
    /\ calls < MaxCalls
    /\ calls' = calls + 1
    /\ IF token = EmptyToken
       THEN /\ Finish(p, Throw(NoCall, BadRequest, "Refresh token is required"),
                      "logout", FALSE, 0)
            /\ UNCHANGED <<refreshTokens, events>>
       ELSE /\ refreshTokens' = RevokeByHash(HashToken(token))
            /\ events' = events \cup {<<"logout", token>>}
            /\ Finish(p, [NoCall EXCEPT !.token = token,
                                         !.again = <<"logout", token>> \in events],
                      "logout", TRUE, 0)
    /\ UNCHANGED <<now, ticks, otps, nextOtpId, issued, consumed,
                   users, nextTokenId, rotated, killed>>

\* C34 mutant: the bulk update flips revoked on every row of the user
ToggleAllOfUser(userId) ==
    {IF r.userId = userId THEN [r EXCEPT !.revoked = ~r.revoked] ELSE r
     : r \in refreshTokens}

\* C10 mutant: the bulk update drops the userId condition
RevokeAllOfEveryUser(userId) ==
    {IF ~r.revoked THEN [r EXCEPT !.revoked = TRUE] ELSE r : r \in refreshTokens}

\* update({ userId, revoked: false }, { revoked: true })
RevokeAllOfUser(userId) ==
    {IF r.userId = userId /\ ~r.revoked THEN [r EXCEPT !.revoked = TRUE] ELSE r
     : r \in refreshTokens}

\* logoutFromAllDevices: one update statement
LogoutFromAllDevices(p, userId) ==
    /\ Free(p)
    /\ calls < MaxCalls
    /\ calls' = calls + 1
    /\ refreshTokens' = RevokeAllOfUser(userId)
    /\ killed' = killed \cup {r.id : r \in {x \in refreshTokens :
                                                x.userId = userId /\ ~x.revoked}}
    /\ Finish(p, NoCall, "logoutAll", TRUE, 0)
    /\ UNCHANGED <<events, now, ticks, otps, nextOtpId, issued, consumed,
                   users, nextTokenId, rotated>>

\* C24 mutant: the update drops the userId condition
AnyActive(userId, sessionId) ==
    {r \in refreshTokens : r.id = sessionId /\ ~r.revoked}

\* rows matched by update({ id: sessionId, userId, revoked: false }, ...)
OwnedActive(userId, sessionId) ==
    {r \in refreshTokens : r.id = sessionId /\ r.userId = userId /\ ~r.revoked}

\* revokeSession: one update statement; NotFound when it affected no row
RevokeSession(p, userId, sessionId) ==
    /\ Free(p)
    /\ calls < MaxCalls
    /\ calls' = calls + 1
    /\ refreshTokens' = (refreshTokens \ OwnedActive(userId, sessionId))
                           \cup {[r EXCEPT !.revoked = TRUE] :
                                   r \in OwnedActive(userId, sessionId)}
    /\ IF OwnedActive(userId, sessionId) = {}
       THEN Finish(p, Throw([NoCall EXCEPT !.stale =
                                \E r \in refreshTokens :
                                   r.id = sessionId /\ r.userId # userId /\ ~r.revoked],
                            NotFound, "Session not found"), "revokeSession", FALSE, 0)
       ELSE Finish(p, NoCall, "revokeSession", TRUE, 0)
    /\ UNCHANGED <<events, now, ticks, otps, nextOtpId, issued, consumed,
                   users, nextTokenId, rotated, killed>>

TickSession ==
    /\ Advance(RefreshTokenSeconds)
    /\ ret' = NoRet
    /\ UNCHANGED <<events, otpVars, sessionVars, pc, call>>

----------------------------------------------------------------------------
(* The session store on its own: two registered and verified users (the    *)
(* state after register and verifyEmail of each), no session yet           *)

VerifiedUser(id, email, password) ==
    [id |-> id, email |-> email, password |-> BcryptHash(password),
     emailVerified |-> TRUE]

UserIds == {1, 2}
LoginEmails == {"a@x.com", "b@x.com", "nobody@x.com"}

InitSession ==
    /\ now = 0
    /\ ticks = 0
    /\ calls = 0
    /\ users = {VerifiedUser(1, "a@x.com", "Password1"),
                VerifiedUser(2, "b@x.com", "Password2")}
    /\ otps = {}
    /\ nextOtpId = 1
    /\ refreshTokens = {}
    /\ nextTokenId = 1
    /\ pc = [p \in Procs |-> "idle"]
    /\ call = [p \in Procs |-> NoCall]
    /\ ret = NoRet
    /\ issued = {}
    /\ consumed = {}
    /\ rotated = {}
    /\ killed = {}
    /\ events = {}

\* the refresh tokens a client may present: those issued so far, and 0,
\* which is never issued
Presentable == 0 .. nextTokenId - 1

NextSession ==
    \/ \E p \in Procs, email \in LoginEmails, password \in Passwords :
          LoginFind(p, email, password)
    \/ \E p \in Procs : LoginSave(p)
    \/ \E p \in Procs, token \in Presentable : RefreshFind(p, token)
    \/ \E p \in Procs : RefreshExpire(p)
    \/ \E p \in Procs : RefreshRevoke(p)
    \/ \E p \in Procs : RefreshSave(p)
    \/ \E p \in Procs, token \in Presentable \cup {EmptyToken} : Logout(p, token)
    \/ \E p \in Procs, userId \in UserIds : LogoutFromAllDevices(p, userId)
    \/ \E p \in Procs, userId \in UserIds, sessionId \in 1 .. nextTokenId - 1 :
          RevokeSession(p, userId, sessionId)
    \/ TickSession

SpecSession == InitSession /\ [][NextSession]_vars

----------------------------------------------------------------------------
(* Claims about the session store, checked under SpecSession *)

\* C1: two refreshToken calls racing on the same active, unexpired token
\* never both return a new token pair: at most one refresh of a token
\* succeeds.
C1_RotatedByAtMostOneCall ==
    \A x \in rotated : \A y \in rotated : x[1] = y[1] => x = y

\* C2: once a refreshToken of token T has returned tokens, every
\* refreshToken of T that begins later fails, whatever ran in between.
C2_RefreshSingleUse ==
    /\ \A p \in Procs :
          pc[p] \in {"refreshExpire", "refreshRevoke", "refreshSave"} => ~call[p].again
    /\ Returned("refresh") /\ ret.again => ~ret.ok

\* C2 witness: a refresh of an already rotated token failed.
C2_Witness == Returned("refresh") /\ ret.again /\ ~ret.ok

\* C10, first half: a refreshToken that begins after logoutFromAllDevices
\* of a user, with the token of a session that was active for that user
\* when it ran, fails.
C10_KilledTokenFails ==
    /\ \A p \in Procs :
          pc[p] \in {"refreshExpire", "refreshRevoke", "refreshSave"} => ~call[p].stale
    /\ Returned("refresh") /\ ret.stale => ~ret.ok

\* C10, second half: logoutFromAllDevices of a user leaves the sessions of
\* every other user as they were, and leaves no session of the user active.
C10_OtherUsersUnchanged ==
    \A p \in Procs : \A userId \in UserIds :
        LogoutFromAllDevices(p, userId) =>
            /\ \A r \in refreshTokens : r.userId # userId => r \in refreshTokens'
            /\ \A r \in refreshTokens' : r.userId # userId => r \in refreshTokens
            /\ \A r \in refreshTokens' : r.userId = userId => r.revoked

\* C10: after logoutFromAllDevices(userId), refreshToken with the token of
\* any session that was active for the user fails, and the sessions of every
\* other user are unchanged.
C10_LogoutAll == [](C10_KilledTokenFails) /\ [][C10_OtherUsersUnchanged]_vars

\* C11: a refreshToken of token T that begins after a logout of T has
\* returned never gets past the lookup: it throws UnauthorizedException.
C11_LoggedOutTokenFails ==
    /\ \A p \in Procs :
          pc[p] \in {"refreshExpire", "refreshRevoke", "refreshSave"} => ~call[p].loggedOut
    /\ Returned("refresh") /\ ret.loggedOut => ~ret.ok /\ ret.err = Unauthorized

\* C11 witness: a refresh of a token that had been issued by a login and
\* then logged out failed.
C11_Witness ==
    /\ Returned("refresh") /\ ret.loggedOut /\ ~ret.ok
    /\ \E r \in refreshTokens : r.hashedToken = HashToken(ret.token)

\* C12: logout of a token (unknown, revoked or active) succeeds; when no
\* active session carries the token it changes no session record; and the
\* store it leaves is a fixed point of the same logout, so logout(T)
\* followed by logout(T) leaves what a single logout(T) leaves.
C12_LogoutStep ==
    \A p \in Procs : \A token \in Presentable :
        Logout(p, token) =>
            /\ ret'.op = "logout" /\ ret'.ok
            /\ FindActiveToken(HashToken(token)) = {} => refreshTokens' = refreshTokens
            /\ RevokeByHash(HashToken(token))' = refreshTokens'
            /\ \A r \in refreshTokens :
                  r.hashedToken # HashToken(token) => r \in refreshTokens'

C14_LoginStep ==
    /\ \A p \in Procs : \A user \in users : \A password \in Passwords :
             /\ user.emailVerified
             /\ BcryptCompare(password, user.password)
             /\ LoginFind(p, user.email, password)
             => pc'[p] = "loginSave" /\ call'[p].uid = user.id
    /\ \A p \in Procs :
          LoginSave(p) =>
             /\ ret'.op = "login" /\ ret'.ok
             /\ \E row \in refreshTokens' :
                   /\ row \notin refreshTokens
                   /\ refreshTokens' = refreshTokens \cup {row}
                   /\ row.userId = call[p].uid
                   /\ ~row.revoked /\ ~IsExpired(row, now)
                   /\ row.hashedToken = HashToken(ret'.out)
                   /\ \A r \in refreshTokens : r.hashedToken # row.hashedToken

C14_LoginCreatesOneSession == [][C14_LoginStep]_vars

\* C14 witness: a login returned tokens when sessions already existed, and
\* the returned token is the token of exactly one row.
C14_Witness ==
    /\ Returned("login") /\ ret.ok
    /\ Cardinality(refreshTokens) >= 2
    /\ Cardinality({r \in refreshTokens : r.hashedToken = HashToken(ret.out)}) = 1

\* C34: in every step of login, refreshToken, logout, logoutFromAllDevices
\* and revokeSession, every row of refresh_tokens stays, with its id, owner,
\* hashed token, createdAt and expiresAt, and stays revoked if it was: the
\* only change to a row is revoked going from false to true.
C34_SessionStep ==
    \A r \in refreshTokens : \E n \in refreshTokens' :
        /\ n.id = r.id
        /\ n.userId = r.userId /\ n.hashedToken = r.hashedToken
        /\ n.expiresAt = r.expiresAt /\ n.createdAt = r.createdAt
        /\ r.revoked => n.revoked
        /\ \A m \in refreshTokens' : m.id = r.id => m = n

C34_OnlyRevocationChanges == [][C34_SessionStep]_vars

\* C34 witness: a session that was revoked is still revoked, with the token
\* and the expiry it was created with, after a later session of the same
\* user was created and a logout has run.
C34_Witness ==
    /\ \E r \in refreshTokens : \E n \in refreshTokens :
          /\ r.userId = n.userId /\ r.id < n.id
          /\ r.revoked /\ ~n.revoked
          /\ r.hashedToken = HashToken(r.id)
          /\ r.expiresAt = r.createdAt + RefreshTokenSeconds
    /\ \E e \in events : e[1] = "logout"

\* C36: a refreshToken whose session was active when a
\* logoutFromAllDevices of its user ran (so the refresh had read the session
\* before, or it would not have found it) returns no tokens, and so leaves
\* no session of the user active.
C36_LogoutAllWins ==
    Returned("refresh") /\ ret.rec \in killed =>
        /\ ~ret.ok
        /\ \A r \in refreshTokens : r.hashedToken = HashToken(ret.out) => r.revoked

\* C10 witness: a refresh of a token covered by a logoutFromAllDevices
\* failed while a session of another user was still active.
C10_Witness ==
    /\ Returned("refresh") /\ ret.stale /\ ~ret.ok
    /\ \E r \in refreshTokens : \E o \in refreshTokens :
          /\ r.hashedToken = HashToken(ret.token)
          /\ o.userId # r.userId /\ ~o.revoked

----------------------------------------------------------------------------
(* refreshToken when the store fails or the request is cancelled *)

\* refreshToken: the awaited statement the call is at (the update of line
\* 246 or the save of generateTokens) is rejected by the store, or the
\* request ends there; the statement writes nothing and the call throws
RefreshAbort(p) ==
    /\ pc[p] \in {"refreshRevoke", "refreshSave"}
    /\ Finish(p, Throw(call[p], QueryFailed, "store unavailable"), "refresh", FALSE, 0)
    /\ UNCHANGED <<events, now, ticks, otpVars, sessionVars>>

(* The rotation on its own: the two verified users log in and refresh,     *)
(* and a store statement of refreshToken may fail                          *)

NextRotation ==
    \/ \E p \in Procs, email \in LoginEmails, password \in Passwords :
          LoginFind(p, email, password)
    \/ \E p \in Procs : LoginSave(p)
    \/ \E p \in Procs, token \in Presentable : RefreshFind(p, token)
    \/ \E p \in Procs : RefreshExpire(p)
    \/ \E p \in Procs : RefreshRevoke(p)
    \/ \E p \in Procs : RefreshSave(p)
    \/ \E p \in Procs : RefreshAbort(p)
    \/ TickSession

SpecRotation == InitSession /\ [][NextRotation]_vars

\* C27, the outcome: a refreshToken that finds the unrevoked session of its
\* token past expiresAt never enters the rotation; it throws
\* UnauthorizedException, and the session is revoked when it returns.
C27_ExpiredOutcome ==
    /\ \A p \in Procs : pc[p] \in {"refreshRevoke", "refreshSave"} => ~call[p].late
    /\ Returned("refresh") /\ ret.late =>
          /\ ~ret.ok /\ ret.err = Unauthorized
          /\ \A r \in refreshTokens : r.id = ret.rec => r.revoked

\* C27, the step: the expired branch writes revoked = true on the session
\* it read and on nothing else, and adds no row.
C27_ExpireStep ==
    \A p \in Procs :
        RefreshExpire(p) =>
           /\ nextTokenId' = nextTokenId
           /\ {r.id : r \in refreshTokens'} = {r.id : r \in refreshTokens}
           /\ \A r \in refreshTokens : r.id # call[p].rec => r \in refreshTokens'
           /\ \A r \in refreshTokens' : r.id = call[p].rec => r.revoked

\* C27: refresh with the token of an unrevoked, expired session fails
\* Unauthorized, revokes that session and creates no session.
C27_ExpiredRefresh == [](C27_ExpiredOutcome) /\ [][C27_ExpireStep]_vars

\* C27 witness: a refresh of an expired token that was unrevoked when read
\* threw 'Refresh token expired', and its session is now revoked.
C27_Witness ==
    /\ Returned("refresh") /\ ret.late /\ ~ret.ok /\ ret.msg = "Refresh token expired"
    /\ \E r \in refreshTokens :
          r.id = ret.rec /\ r.hashedToken = HashToken(ret.token) /\ r.revoked
    /\ ret.token \notin {x[1] : x \in rotated}

\* the session whose token is token (tokens are never drawn twice)
SessionOf(token) == {r \in refreshTokens : r.hashedToken = HashToken(token)}

\* C28, the outcome: when a refreshToken returns tokens, the session of the
\* refresh token it returns belongs to the owner of the session of the token
\* presented, and the payload of the access token it returns holds that
\* owner's id and email.
C28_SameUserOutcome ==
    Returned("refresh") /\ ret.ok =>
        \A old \in SessionOf(ret.token) :
            /\ \E new \in SessionOf(ret.out) : new.userId = old.userId /\ new.id # old.id
            /\ \A new \in SessionOf(ret.out) : new.userId = old.userId
            /\ \E u \in users :
                  u.id = old.userId /\ JwtPayload(ret.uid, ret.email) = JwtPayload(u.id, u.email)

\* C28, the steps: the revoke step of the rotation adds no row, and the
\* generateTokens step adds exactly one, owned by the user the call loaded
\* with the token, and returns successfully.
C28_RotationStep ==
    \A p \in Procs :
        /\ RefreshRevoke(p) =>
              {r.id : r \in refreshTokens'} = {r.id : r \in refreshTokens}
        /\ RefreshSave(p) =>
              /\ ret'.op = "refresh" /\ ret'.ok
              /\ \E row \in refreshTokens' :
                    /\ row \notin refreshTokens
                    /\ refreshTokens' = refreshTokens \cup {row}
                    /\ row.userId = call[p].uid
                    /\ row.hashedToken = HashToken(ret'.out)

\* C28: a successful refresh creates exactly one session, for the user of
\* the session presented, and its access token names that user.
C28_RefreshKeepsUser == [](C28_SameUserOutcome) /\ [][C28_RotationStep]_vars

\* C28 witness: a refresh of a session of user 2 returned tokens for user 2
\* while user 1 has sessions too.
C28_Witness ==
    /\ Returned("refresh") /\ ret.ok /\ ret.uid = 2 /\ ret.email = "b@x.com"
    /\ \E new \in SessionOf(ret.out) : new.userId = 2 /\ ~new.revoked
    /\ \E r \in refreshTokens : r.userId = 1

\* C29: in every reachable state, for every token that a refreshToken has
\* replaced and every token that replaced it, the lookup of refreshToken
\* (findOne by hash with revoked: false) finds at most one of the two: the
\* session rotated is revoked from the moment its successor exists.
C29_NeverBothActive ==
    \A x \in rotated :
        ~(/\ FindActiveToken(HashToken(x[1])) # {}
          /\ FindActiveToken(HashToken(x[2])) # {})

\* C29 witness: a token has been rotated, its successor is active and
\* unexpired, and the session rotated is revoked.
C29_Witness ==
    \E x \in rotated :
        /\ \E new \in FindActiveToken(HashToken(x[2])) : ~IsExpired(new, now)
        /\ \E old \in SessionOf(x[1]) : old.revoked

\* C30: a refreshToken that ends in an error has not revoked the session of
\* its token for a rotation: the store holds either the session as it was
\* and no successor, or the session revoked together with its successor.
\* (The expired branch, which revokes and throws by design, is left aside.)
C30_NoHalfRotation ==
    Returned("refresh") /\ ~ret.ok /\ ~ret.late => ~ret.marked

----------------------------------------------------------------------------
(* AuthService.getActiveSessions *)

\* C26 mutant: the query drops the userId condition
ActiveSessionsOfAnyone(userId) == {r \in refreshTokens : ~r.revoked}

\* find: where { userId, revoked: false }
ActiveSessionsOf(userId) == {r \in refreshTokens : r.userId = userId /\ ~r.revoked}

\* find: order { createdAt: 'DESC' }; every sequence that lists each row of
\* rows once with createdAt never increasing (the order of rows with equal
\* createdAt is the database's choice)
NewestFirst(rows) ==
    {sq \in [1 .. Cardinality(rows) -> rows] :
        /\ \A i \in DOMAIN sq : \A j \in DOMAIN sq : sq[i] = sq[j] => i = j
        /\ \A i \in DOMAIN sq : \A j \in DOMAIN sq :
              i < j => sq[i].createdAt >= sq[j].createdAt}

\* the object sessions.map builds from a row (userAgent and ipAddress are
\* not part of the rows of the model)
SessionView(session) ==
    [id |-> session.id, createdAt |-> session.createdAt, expiresAt |-> session.expiresAt]

\* getActiveSessions: one find statement and the map over its rows
GetActiveSessions(p, userId) ==
    /\ Free(p)
    /\ calls < MaxCalls
    /\ calls' = calls + 1
    /\ \E sessions \in NewestFirst(ActiveSessionsOf(userId)) :
          Finish(p, [NoCall EXCEPT !.uid = userId], "getActiveSessions", TRUE,
                 [i \in DOMAIN sessions |-> SessionView(sessions[i])])
    /\ UNCHANGED <<events, now, ticks, otps, nextOtpId, issued, consumed, sessionVars>>

(* The session list on its own: the two verified users log in, revoke      *)
(* sessions (their own, each other's, and one that does not exist) and     *)
(* list them                                                               *)

\* the session ids a client may name: those of the rows stored so far, and
\* the next one, which no row has yet
SessionIds == 1 .. nextTokenId

NextListing ==
    \/ \E p \in Procs, email \in LoginEmails, password \in Passwords :
          LoginFind(p, email, password)
    \/ \E p \in Procs : LoginSave(p)
    \/ \E p \in Procs, userId \in UserIds, sessionId \in SessionIds :
          RevokeSession(p, userId, sessionId)
    \/ \E p \in Procs, userId \in UserIds : GetActiveSessions(p, userId)
    \/ TickSession

SpecListing == InitSession /\ [][NextListing]_vars

\* C26: the list getActiveSessions(userId) returns holds one entry for each
\* unrevoked row of refresh_tokens whose userId is userId and no other entry,
\* in an order in which createdAt never increases, and an entry has the
\* fields id, createdAt and expiresAt only: neither the token nor its hash.
C26_ListsOwnActiveSessions ==
    Returned("getActiveSessions") =>
        /\ Len(ret.out) = Cardinality(ActiveSessionsOf(ret.uid))
        /\ {ret.out[i].id : i \in DOMAIN ret.out} =
              {r.id : r \in {x \in refreshTokens : x.userId = ret.uid /\ ~x.revoked}}
        /\ \A i \in DOMAIN ret.out : \A r \in refreshTokens :
              r.id = ret.out[i].id =>
                 ret.out[i].createdAt = r.createdAt /\ ret.out[i].expiresAt = r.expiresAt
        /\ \A i \in DOMAIN ret.out : \A j \in DOMAIN ret.out :
              i < j => ret.out[i].createdAt >= ret.out[j].createdAt
        /\ \A i \in DOMAIN ret.out :
              DOMAIN ret.out[i] = {"id", "createdAt", "expiresAt"}

\* C26 witness: a list of two sessions created at different times was
\* returned, the newer one first, while the other user has an active
\* session.
C26_Witness ==
    /\ Returned("getActiveSessions") /\ Len(ret.out) = 2
    /\ ret.out[1].createdAt > ret.out[2].createdAt
    /\ \E r \in refreshTokens : r.userId # ret.uid /\ ~r.revoked

\* C24: revokeSession(userId, sessionId) for a session that another user
\* owns throws NotFoundException('Session not found'), as it does for a
\* session id that no row has, and changes no row: the session stays as it
\* was.
C24_ForeignSessionStep ==
    \A userId \in UserIds : \A sessionId \in SessionIds :
        (\A r \in refreshTokens : r.id = sessionId => r.userId # userId) =>
            \A p \in Procs :
                RevokeSession(p, userId, sessionId) =>
                   /\ ret'.op = "revokeSession" /\ ~ret'.ok
                   /\ ret'.err = NotFound /\ ret'.msg = "Session not found"
                   /\ refreshTokens' = refreshTokens

C24_ForeignSessionNotFound == [][C24_ForeignSessionStep]_vars

\* C24 witness: a revokeSession that named an active session of another
\* user threw NotFoundException, and a session of each user is active.
C24_Witness ==
    /\ Returned("revokeSession") /\ ~ret.ok /\ ret.stale /\ ret.err = NotFound
    /\ \A userId \in UserIds : \E r \in refreshTokens : r.userId = userId /\ ~r.revoked

\* C25: revokeSession(userId, sessionId) on a session that userId owns and
\* that is revoked already changes no row and has the outcome of the call
\* that revoked it: it returns successfully.
C25_RepeatStep ==
    \A userId \in UserIds : \A sessionId \in SessionIds :
        (\E r \in refreshTokens : r.id = sessionId /\ r.userId = userId /\ r.revoked) =>
            \A p \in Procs :
                RevokeSession(p, userId, sessionId) =>
                   /\ refreshTokens' = refreshTokens
                   /\ ret'.op = "revokeSession" /\ ret'.ok

C25_RevokeIdempotent == [][C25_RepeatStep]_vars

----------------------------------------------------------------------------
(* AuthService: register, resendOtp and verifyEmail, over UsersService and *)
(* OtpService                                                              *)

tokenVars == <<refreshTokens, nextTokenId, rotated, killed>>

RegisterPasswords == {"Password1"}

\* C16 mutant: the lookup by email finds no one
FindNoUser(email) == {}

\* usersService.findByEmail; the empty set stands for null
FindUserByEmail(email) == {u \in users : u.email = email}

\* UsersService.create: usersRepository.findOne({ where: { email } })
ExistingUser(email) == {u \in users : u.email = email}

\* C17 mutant: the users table has no unique index on email
NoUniqueIndex(email) == FALSE

\* @Column({ unique: true }) email: an insert of a second row with the email
\* is rejected by the database
UniqueViolation(email) == \E u \in users : u.email = email

\* @PrimaryGeneratedColumn of users (no row is ever deleted here)
NextUserId == Cardinality(users) + 1

\* C18 mutant: a new user row starts verified
NewVerifiedUser(id, email, password) ==
    [id |-> id, email |-> email, password |-> BcryptHash(password),
     emailVerified |-> TRUE]

\* UsersService.create: the row saved; emailVerified takes its default
NewUser(id, email, password) ==
    [id |-> id, email |-> email, password |-> BcryptHash(password),
     emailVerified |-> FALSE]

\* register, entry: findByEmail and the Conflict check
RegisterFind(p, email, password) ==
    /\ Free(p)
    /\ calls < MaxFlows
    /\ calls' = calls + 1
    /\ LET c == [NoCall EXCEPT !.op = "register", !.email = email,
                               !.password = password,
                               !.again = \E u \in users : u.email = email]
       IN  IF FindUserByEmail(email) # {}
           THEN Finish(p, Throw(c, Conflict, "User with this email already exists"),
                       "register", FALSE, 0)
           ELSE /\ pc' = [pc EXCEPT ![p] = "registerCreate"]
                /\ call' = [call EXCEPT ![p] = c]
                /\ ret' = NoRet
    /\ UNCHANGED <<now, ticks, users, otps, nextOtpId, issued, consumed, events, tokenVars>>

\* register, usersService.create: its own lookup and Conflict check
RegisterCreate(p) ==
    /\ pc[p] = "registerCreate"
    /\ IF ExistingUser(call[p].email) # {}
       THEN Finish(p, Throw(call[p], Conflict, "User with this email already exists"),
                   "register", FALSE, 0)
       ELSE /\ pc' = [pc EXCEPT ![p] = "registerSave"]
            /\ ret' = NoRet
            /\ UNCHANGED call
    /\ UNCHANGED <<now, ticks, calls, users, otps, nextOtpId, issued, consumed, events,
                   tokenVars>>

\* register, usersService.create: bcrypt.hash and usersRepository.save
RegisterSave(p) ==
    /\ pc[p] = "registerSave"
    /\ IF UniqueViolation(call[p].email)
       THEN /\ Finish(p, Throw(call[p], QueryFailed, "duplicate key value"),
                      "register", FALSE, 0)
            /\ UNCHANGED <<users, events>>
       ELSE /\ users' = users \cup {NewUser(NextUserId, call[p].email, call[p].password)}
            /\ events' = events \cup {<<"password", NextUserId, call[p].password>>}
            /\ pc' = [pc EXCEPT ![p] = "otpCleanup"]
            /\ call' = [call EXCEPT ![p].uid = NextUserId]
            /\ ret' = NoRet
    /\ UNCHANGED <<now, ticks, calls, otps, nextOtpId, issued, consumed, tokenVars>>

\* resendOtp, entry: findByEmail, NotFound and already verified
ResendFind(p, email) ==
    /\ Free(p)
    /\ calls < MaxFlows
    /\ calls' = calls + 1
    /\ LET c == [NoCall EXCEPT !.op = "resendOtp", !.email = email]
       IN  IF FindUserByEmail(email) = {}
           THEN Finish(p, Throw(c, NotFound, "User not found"), "resendOtp", FALSE, 0)
           ELSE \E user \in FindUserByEmail(email) :
                  IF user.emailVerified
                  THEN Finish(p, Throw(c, BadRequest, "Email is already verified"),
                              "resendOtp", FALSE, 0)
                  ELSE /\ pc' = [pc EXCEPT ![p] = "otpCleanup"]
                       /\ call' = [call EXCEPT ![p] =
                             [c EXCEPT !.uid = user.id,
                                       !.again = <<"undelivered", user.id>> \in events]]
                       /\ ret' = NoRet
    /\ UNCHANGED <<now, ticks, users, otps, nextOtpId, issued, consumed, events, tokenVars>>

\* the try blocks of register and resendOtp: what the method returns when the
\* code was issued and sent (failed = FALSE) and what its catch block does
\* with an exception of createEmailVerificationOtp or sendOtpEmail
AfterOtp(p, c, failed, err, msg, out) ==
    IF c.op = "register"
    THEN /\ Finish(p, [c EXCEPT !.undelivered = failed], "register", TRUE, out)
         /\ events' = events \cup {<<"register", c.uid>>}
                             \cup (IF failed THEN {<<"undelivered", c.uid>>} ELSE {})
    ELSE /\ IF failed
            THEN Finish(p, Throw([c EXCEPT !.undelivered = TRUE], err, msg),
                        "resendOtp", FALSE, out)
            ELSE Finish(p, c, "resendOtp", TRUE, out)
         /\ UNCHANGED events

\* createEmailVerificationOtp inside register or resendOtp: cleanupExpiredOtps
OtpCleanup(p) ==
    /\ pc[p] = "otpCleanup"
    /\ otps' = CleanupExpiredOtps
    /\ pc' = [pc EXCEPT ![p] = "otpFind"]
    /\ ret' = NoRet
    /\ UNCHANGED <<now, ticks, calls, users, nextOtpId, issued, consumed, events, call,
                   tokenVars>>

\* createEmailVerificationOtp inside register or resendOtp: the rate-limit check
OtpFind(p) ==
    /\ pc[p] = "otpFind"
    /\ IF RateLimited(call[p].email, now)
       THEN AfterOtp(p, call[p], TRUE, BadRequest, "Please wait before requesting a new OTP", 0)
       ELSE /\ pc' = [pc EXCEPT ![p] = "otpUpdate"]
            /\ ret' = NoRet
            /\ UNCHANGED <<call, events>>
    /\ UNCHANGED <<now, ticks, calls, users, otps, nextOtpId, issued, consumed, tokenVars>>

\* createEmailVerificationOtp inside register or resendOtp: the earlier codes
OtpUpdate(p) ==
    /\ pc[p] = "otpUpdate"
    /\ otps' = MarkUnusedUsed(call[p].email)
    /\ pc' = [pc EXCEPT ![p] = "otpSave"]
    /\ ret' = NoRet
    /\ UNCHANGED <<now, ticks, calls, users, nextOtpId, issued, consumed, events, call,
                   tokenVars>>

\* createEmailVerificationOtp inside register or resendOtp: generateOtp and
\* save; then mailService.sendOtpEmail, which delivers or throws, and the
\* return of register or resendOtp
OtpSave(p) ==
    /\ pc[p] = "otpSave"
    /\ \E otp \in Codes, delivered \in BOOLEAN :
         LET row == NewOtp(nextOtpId, call[p].email, otp, now)
         IN  /\ otps' = otps \cup {row}
             /\ issued' = issued \cup {row}
             /\ nextOtpId' = nextOtpId + 1
             /\ AfterOtp(p, call[p], ~delivered, BadRequest,
                         "Failed to send OTP. Please try again later.", row.id)
    /\ UNCHANGED <<now, ticks, calls, users, consumed, tokenVars>>

\* verifyEmail, entry: verifyEmailOtp, cleanupExpiredOtps
VerifyEmailCleanup(p, email, code) ==
    /\ Free(p)
    /\ calls < MaxFlows
    /\ calls' = calls + 1
    /\ otps' = CleanupExpiredOtps
    /\ pc' = [pc EXCEPT ![p] = "verifyEmailFind"]
    /\ call' = [call EXCEPT ![p] = [NoCall EXCEPT !.op = "verifyEmail",
                                        !.email = email, !.code = code,
                                        !.stale = \E u \in users :
                                                     u.email = email /\ u.emailVerified]]
    /\ ret' = NoRet
    /\ UNCHANGED <<now, ticks, users, nextOtpId, issued, consumed, events, tokenVars>>

\* verifyEmail, verifyEmailOtp: the lookup, the expiry check and the
\* comparison; BadRequest when verifyEmailOtp returns false
VerifyEmailFind(p) ==
    /\ pc[p] = "verifyEmailFind"
    /\ IF UnusedOtp(call[p].email) = {}
       THEN /\ Finish(p, Throw(call[p], BadRequest, "Invalid or expired OTP"),
                      "verifyEmail", FALSE, 0)
            /\ UNCHANGED events
       ELSE \E otpEntity \in UnusedOtp(call[p].email) :
              LET c == [call[p] EXCEPT
                          !.rec = otpEntity.id,
                          !.again = <<"wrong", otpEntity.id>> \in events,
                          !.match = otpEntity.hashedOtp = HashOtp(call[p].code),
                          !.late = otpEntity.expiresAt < now]
              IN  IF IsExpired(otpEntity, now)
                  THEN /\ Finish(p, Throw(c, BadRequest, "Invalid or expired OTP"),
                                 "verifyEmail", FALSE, 0)
                       /\ UNCHANGED events
                  ELSE IF VerifyOtp(c.code, otpEntity.hashedOtp)
                       THEN /\ pc' = [pc EXCEPT ![p] = "verifyEmailUpdate"]
                            /\ call' = [call EXCEPT ![p] = c]
                            /\ ret' = NoRet
                            /\ UNCHANGED events
                       ELSE /\ Finish(p, Throw(c, BadRequest, "Invalid or expired OTP"),
                                      "verifyEmail", FALSE, 0)
                            /\ events' = events \cup {<<"wrong", otpEntity.id>>}
    /\ UNCHANGED <<now, ticks, calls, users, otps, nextOtpId, issued, consumed, tokenVars>>

\* verifyEmail, verifyEmailOtp: the record is marked used and true returned
VerifyEmailUpdate(p) ==
    /\ pc[p] = "verifyEmailUpdate"
    /\ otps' = MarkUsed(call[p].rec)
    /\ consumed' = consumed \cup {<<call[p].rec, Cardinality(consumed) + 1>>}
    /\ pc' = [pc EXCEPT ![p] = "verifyEmailUser"]
    /\ call' = [call EXCEPT ![p].marked = TRUE]
    /\ ret' = NoRet
    /\ UNCHANGED <<now, ticks, calls, users, nextOtpId, issued, events, tokenVars>>

\* verifyEmail: findByEmail, NotFound and already verified
VerifyEmailUser(p) ==
    /\ pc[p] = "verifyEmailUser"
    /\ IF FindUserByEmail(call[p].email) = {}
       THEN Finish(p, Throw(call[p], NotFound, "User not found"), "verifyEmail", FALSE, 0)
       ELSE \E user \in FindUserByEmail(call[p].email) :
              IF user.emailVerified
              THEN Finish(p, Throw(call[p], BadRequest, "Email is already verified"),
                          "verifyEmail", FALSE, 0)
              ELSE /\ pc' = [pc EXCEPT ![p] = "verifyEmailMark"]
                   /\ call' = [call EXCEPT ![p].uid = user.id]
                   /\ ret' = NoRet
    /\ UNCHANGED <<now, ticks, calls, users, otps, nextOtpId, issued, consumed, events,
                   tokenVars>>

\* C21 mutant: the update of the user changes no row
MarkNoUser(userId) == users

\* usersRepository.update(userId, { emailVerified: true })
MarkEmailVerified(userId) ==
    {IF u.id = userId THEN [u EXCEPT !.emailVerified = TRUE] ELSE u : u \in users}

\* verifyEmail, usersService.verifyEmail: the update, which the store carries
\* out or rejects, then findOne and the welcome mail, whose failure is ignored
VerifyEmailMark(p) ==
    /\ pc[p] = "verifyEmailMark"
    /\ \E stored \in BOOLEAN, welcomed \in BOOLEAN :
         IF stored
         THEN /\ users' = MarkEmailVerified(call[p].uid)
              /\ Finish(p, [call[p] EXCEPT !.undelivered = ~welcomed],
                        "verifyEmail", TRUE, call[p].uid)
         ELSE /\ UNCHANGED users
              /\ Finish(p, Throw(call[p], QueryFailed, "update failed"),
                        "verifyEmail", FALSE, 0)
    /\ UNCHANGED <<now, ticks, calls, otps, nextOtpId, issued, consumed, events, tokenVars>>

\* the clock passes the lifetime of every OTP issued so far
Lapse ==
    /\ ticks < MaxLapses
    /\ now' = now + OtpExpirySeconds + CooldownSeconds
    /\ ticks' = ticks + 1
    /\ ret' = NoRet
    /\ UNCHANGED <<events, otpVars, sessionVars, pc, call>>

(* The account lifecycle on its own: no user, no OTP, no session *)

InitAccount ==
    /\ now = 0
    /\ ticks = 0
    /\ calls = 0
    /\ users = {}
    /\ otps = {}
    /\ nextOtpId = 1
    /\ refreshTokens = {}
    /\ nextTokenId = 1
    /\ pc = [p \in Procs |-> "idle"]
    /\ call = [p \in Procs |-> NoCall]
    /\ ret = NoRet
    /\ issued = {}
    /\ consumed = {}
    /\ rotated = {}
    /\ killed = {}
    /\ events = {}

NextAccount ==
    \/ \E p \in Procs, email \in Emails, password \in RegisterPasswords :
          RegisterFind(p, email, password)
    \/ \E p \in Procs : RegisterCreate(p)
    \/ \E p \in Procs : RegisterSave(p)
    \/ \E p \in Procs, email \in Emails : ResendFind(p, email)
    \/ \E p \in Procs : OtpCleanup(p)
    \/ \E p \in Procs : OtpFind(p)
    \/ \E p \in Procs : OtpUpdate(p)
    \/ \E p \in Procs : OtpSave(p)
    \/ \E p \in Procs, email \in Emails, code \in Codes : VerifyEmailCleanup(p, email, code)
    \/ \E p \in Procs : VerifyEmailFind(p)
    \/ \E p \in Procs : VerifyEmailUpdate(p)
    \/ \E p \in Procs : VerifyEmailUser(p)
    \/ \E p \in Procs : VerifyEmailMark(p)
    \/ \E p \in Procs, email \in LoginEmails, password \in Passwords :
          LoginFind(p, email, password)
    \/ \E p \in Procs : LoginSave(p)
    \/ Lapse

SpecAccount == InitAccount /\ [][NextAccount]_vars

----------------------------------------------------------------------------
(* Claims about the account lifecycle, checked under SpecAccount *)

\* C13: login with the email of a user whose emailVerified is false and with
\* that user's password throws UnauthorizedException in its first step: it
\* returns no token and leaves refresh_tokens as it was.
C13_UnverifiedLoginStep ==
    \A p \in Procs : \A user \in users : \A password \in Passwords :
            /\ ~user.emailVerified
            /\ BcryptCompare(password, user.password)
            /\ LoginFind(p, user.email, password)
            => /\ ret'.op = "login" /\ ~ret'.ok /\ ret'.err = Unauthorized
               /\ ret'.out = 0
               /\ pc'[p] = "idle"
               /\ refreshTokens' = refreshTokens /\ nextTokenId' = nextTokenId

C13_UnverifiedLoginFails == [][C13_UnverifiedLoginStep]_vars

\* C13 witness: a login with the right password of a registered, unverified
\* user failed, and no session exists.
C13_Witness ==
    /\ Returned("login") /\ ~ret.ok /\ ret.match /\ ret.msg = PleaseVerify
    /\ \E u \in users : ~u.emailVerified
    /\ refreshTokens = {}

\* C15: every failed login throws the same exception with the same message,
\* whether the email is unknown, the user unverified or the password wrong.
C15_GenericLoginFailure ==
    Returned("login") /\ ~ret.ok => ret.err = Unauthorized /\ ret.msg = InvalidCredentials

RegisterPcs == {"registerCreate", "registerSave", "otpCleanup", "otpFind", "otpUpdate",
                "otpSave"}

\* C16, the outcome: a register for an email that has a user when the call
\* begins throws ConflictException in its first step.
C16_ExistingEmailConflict ==
    /\ \A p \in Procs : pc[p] \in RegisterPcs /\ call[p].op = "register" => ~call[p].again
    /\ Returned("register") /\ ret.again => ~ret.ok /\ ret.err = Conflict

\* C16, the effect: that step creates and modifies no user and issues no OTP.
C16_ConflictStep ==
    \A p \in Procs : \A email \in Emails : \A password \in RegisterPasswords :
        RegisterFind(p, email, password) /\ (\E u \in users : u.email = email)
        => /\ users' = users
           /\ otps' = otps /\ issued' = issued /\ nextOtpId' = nextOtpId
           /\ pc'[p] = "idle"

\* C16: register for an email that already has a user fails Conflict and
\* changes nothing.
C16_RegisterConflict == [](C16_ExistingEmailConflict) /\ [][C16_ConflictStep]_vars

\* C16 witness: a register for an email whose user existed was rejected.
C16_Witness ==
    /\ Returned("register") /\ ret.again /\ ret.err = Conflict
    /\ \E u \in users : u.email = ret.email

\* the ids of the users whose register call reported success
Registered == {e[2] : e \in {x \in events : x[1] = "register"}}

\* C17: in every reachable state at most one user row has a given email, and
\* at most one register call has reported success for it, however the
\* register calls for the email interleave.
C17_OneUserPerEmail ==
    /\ \A u \in users : \A v \in users : u.email = v.email => u = v
    /\ \A i \in Registered : \A j \in Registered :
          (\E u \in users : \E v \in users :
              u.id = i /\ v.id = j /\ u.email = v.email) => i = j
    /\ \A i \in Registered : \E u \in users : u.id = i

\* C17 witness: two register calls for the same email both passed the two
\* lookups; the save of the second was rejected by the unique index and the
\* call failed, while the first has a user and reported success.
C17_Witness ==
    /\ Returned("register") /\ ~ret.ok /\ ~ret.again /\ ret.err = QueryFailed
    /\ Cardinality(users) = 1
    /\ Registered # {}

\* C18, the outcome: a register whose OTP could not be issued or delivered
\* still reports success, and its user exists; and a resendOtp that begins
\* after such a register has returned, while the user is unverified, issues
\* a code (whether or not its own delivery then succeeds).
C18_UndeliveredOutcome ==
    /\ Returned("register") /\ ret.undelivered =>
          /\ ret.ok
          /\ \E u \in users : u.id = ret.uid /\ u.email = ret.email
    /\ Returned("resendOtp") /\ ret.again =>
          \E r \in issued : r.id = ret.out /\ r.email = ret.email

\* C18, the user: the row register saves has emailVerified = false.
C18_NewUserStep ==
    \A p \in Procs :
        RegisterSave(p) => \A u \in users' : u \notin users => ~u.emailVerified

\* C18: a failure to issue or deliver the OTP during register is non-fatal.
C18_DeliveryFailureNonFatal == [](C18_UndeliveredOutcome) /\ [][C18_NewUserStep]_vars

\* C18 witness: after a register whose delivery failed, a resendOtp for the
\* still unverified user issued and delivered a code.
C18_Witness ==
    /\ Returned("resendOtp") /\ ret.again /\ ret.ok
    /\ \E u \in users : u.id = ret.uid /\ ~u.emailVerified
    /\ \E r \in otps : r.id = ret.out /\ ~r.used

\* C19, the wrong code: a verifyEmail whose code is not the code of the
\* latest unused record, read before its expiry, throws BadRequestException
\* and leaves every OTP record and every user as they were.
C19_WrongCodeStep ==
    \A p \in Procs :
        /\ VerifyEmailFind(p)
        /\ UnusedOtp(call[p].email) # {}
        /\ \A e \in UnusedOtp(call[p].email) :
              ~IsExpired(e, now) /\ e.hashedOtp # HashOtp(call[p].code)
        => /\ ret'.op = "verifyEmail" /\ ~ret'.ok /\ ret'.err = BadRequest
           /\ otps' = otps /\ users' = users
           /\ \A e \in UnusedOtp(call[p].email) : e \in otps' /\ ~e.used

\* C19, the following call: a verifyEmail that reads, before its expiry, a
\* record on which a wrong code was tried earlier, and brings the code of
\* the record, is not rejected for its code: it marks the record used, and
\* it fails only if the user is verified already or the store rejects the
\* update of the user; when it succeeds the user is verified.
C19_RetryOutcome ==
    /\ Returned("verifyEmail") /\ ret.again /\ ret.match /\ ~ret.late /\ ~ret.ok =>
          /\ ret.marked
          /\ ret.err = QueryFailed \/ ret.msg = "Email is already verified"
    /\ Returned("verifyEmail") /\ ret.ok =>
          \E u \in users : u.id = ret.uid /\ u.email = ret.email /\ u.emailVerified

\* C19: verifyEmail with a wrong code fails BadRequest and leaves the OTP
\* unused, and a following verifyEmail with the correct code succeeds.
C19_WrongCodeKeepsOtp == [](C19_RetryOutcome) /\ [][C19_WrongCodeStep]_vars

\* C19 witness: after a verifyEmail with a wrong code had failed on a
\* record, a verifyEmail with the code of that record succeeded and the
\* user is verified.
C19_Witness ==
    /\ Returned("verifyEmail") /\ ret.ok /\ ret.again /\ ret.match
    /\ <<"wrong", ret.rec>> \in events
    /\ \E u \in users : u.id = ret.uid /\ u.emailVerified

\* C20: a verifyEmail that returns an error has marked no OTP record used.
C20_NoPartialEffect == Returned("verifyEmail") /\ ~ret.ok => ~ret.marked

\* C21, the verified account: a verifyEmail for an email whose user was
\* verified when the call began never reaches the update of the user and
\* throws BadRequestException; and a verifyEmail that reports success leaves
\* its user verified.
C21_VerifiedOutcome ==
    /\ \A p \in Procs : pc[p] = "verifyEmailMark" => ~call[p].stale
    /\ Returned("verifyEmail") /\ ret.stale => ~ret.ok /\ ret.err = BadRequest
    /\ Returned("verifyEmail") /\ ret.ok =>
          \E u \in users : u.id = ret.uid /\ u.email = ret.email /\ u.emailVerified

\* C21, the steps: no step takes emailVerified back from true; the user
\* lookup of verifyEmail throws BadRequestException for a verified user and
\* goes on to the update for an unverified one; and the update, when the
\* store carries it out, makes the call succeed with the user verified,
\* whether or not the welcome mail could be sent.
C21_VerifyStep ==
    /\ \A u \in users : u.emailVerified =>
          \E v \in users' : v.id = u.id /\ v.email = u.email /\ v.emailVerified
    /\ \A p \in Procs :
          VerifyEmailUser(p) =>
             \A u \in users : u.email = call[p].email =>
                IF u.emailVerified
                THEN ret'.op = "verifyEmail" /\ ~ret'.ok /\ ret'.err = BadRequest
                ELSE pc'[p] = "verifyEmailMark" /\ call'[p].uid = u.id
    /\ \A p \in Procs :
          VerifyEmailMark(p) /\ ret'.err # QueryFailed =>
             /\ ret'.op = "verifyEmail" /\ ret'.ok
             /\ \E v \in users' : v.id = call[p].uid /\ v.emailVerified

\* C21: verifyEmail for a verified account fails BadRequest and leaves
\* emailVerified true; with a valid code for an unverified account it
\* succeeds and sets emailVerified, also when the welcome mail fails.
C21_VerifyEmailOutcomes == [](C21_VerifiedOutcome) /\ [][C21_VerifyStep]_vars

\* C21 witness: a verifyEmail for an unverified user succeeded although its
\* welcome mail could not be sent, and the user is verified.
C21_Witness ==
    /\ Returned("verifyEmail") /\ ret.ok /\ ret.undelivered /\ ~ret.stale
    /\ \E u \in users : u.id = ret.uid /\ u.emailVerified

\* C22, the lookup: resendOtp throws NotFoundException when no user has the
\* email and BadRequestException when the user is verified, and stores no
\* OTP record in either case; for an unverified user it enters
\* createEmailVerificationOtp, whose save step stores a new record for the
\* email.
C22_LookupStep ==
    /\ \A p \in Procs : \A email \in Emails :
          ResendFind(p, email) =>
             IF \A u \in users : u.email # email
             THEN /\ ret'.op = "resendOtp" /\ ~ret'.ok /\ ret'.err = NotFound
                  /\ otps' = otps /\ issued' = issued
             ELSE IF \E u \in users : u.email = email /\ u.emailVerified
                  THEN /\ ret'.op = "resendOtp" /\ ~ret'.ok /\ ret'.err = BadRequest
                       /\ otps' = otps /\ issued' = issued
                  ELSE pc'[p] = "otpCleanup" /\ call'[p].email = email
    /\ \A p \in Procs :
          OtpSave(p) /\ call[p].op = "resendOtp" =>
             \E r \in otps' : /\ r \notin issued /\ r \in issued'
                               /\ r.email = call[p].email /\ ~r.used
                               /\ r.id = ret'.out

\* C22, the cooldown: a resendOtp whose rate-limit check runs less than the
\* cooldown after an issuance for the email succeeded throws
\* BadRequestException and stores no record.
C22_CooldownStep ==
    \A p \in Procs :
        /\ OtpFind(p)
        /\ call[p].op = "resendOtp"
        /\ IssuedWithin(call[p].email, now)
        => /\ ret'.op = "resendOtp" /\ ~ret'.ok /\ ret'.err = BadRequest
           /\ otps' = otps /\ issued' = issued

\* C22: resendOtp fails NotFound for an unknown email and BadRequest for a
\* verified user, issuing no OTP; for an unverified user it issues a new
\* code, and a cooldown violation reaches the caller as an error.
C22_ResendOutcomes == [][C22_LookupStep /\ C22_CooldownStep]_vars

\* C23: a resendOtp that returns an error has stored no OTP record (out is
\* the id of the record the call stored, 0 when it stored none) and has
\* invalidated no earlier one: every record issued before for the email that
\* is still in the table is as it was issued.
C23_FailedResendStoresNothing ==
    Returned("resendOtp") /\ ~ret.ok =>
        /\ ret.out = 0
        /\ \A r \in otps : r.email = ret.email => r \in issued

\* history: the password the register call that created user uid was given
RegisteredWith(uid, password) == <<"password", uid, password>> \in events

\* C31, the stored value: the password column of every user is the bcrypt
\* hash, taken once, of the password its register call was given.
C31_HashedOnce ==
    \A u \in users : \E password \in Passwords :
        RegisteredWith(u.id, password) /\ u.password = BcryptHash(password)

\* C31, login: for a verified user, login passes the password check exactly
\* when the password supplied is the one given at registration.
C31_LoginStep ==
    \A p \in Procs : \A user \in users : \A password \in Passwords :
        user.emailVerified /\ LoginFind(p, user.email, password) =>
            (pc'[p] = "loginSave" <=> RegisteredWith(user.id, password))

C32_ForwardStep ==
    /\ \A u \in users : \E v \in users' :
          /\ v.id = u.id /\ v.email = u.email
          /\ u.emailVerified => v.emailVerified
    /\ \A v \in users' :
          (\A u \in users : u.id # v.id) => ~v.emailVerified
    /\ \A v \in users' :
          v.emailVerified /\ (\E u \in users : u.id = v.id /\ ~u.emailVerified) =>
             ret'.op = "verifyEmail" /\ ret'.ok /\ ret'.uid = v.id

C37_NoOtpForVerified ==
    \A u \in users :
        u.emailVerified =>
            \A r \in otps :
                r.email = u.email /\ r.type = EmailVerification =>
                    r.used \/ IsExpired(r, now)

----------------------------------------------------------------------------
(* AuthService.validateUser, called by the JWT strategy with the payload   *)
(* of an access token                                                      *)

\* C35 mutant: the emailVerified test is dropped
ValidateAnyUser(email) == {user.id : user \in FindUserByEmail(email)}

\* validateUser: findByEmail(payload.email), then
\* user && user.emailVerified ? user : null; the id of the user returned,
\* 0 for null
ValidateUserResult(email) ==
    IF FindUserByEmail(email) = {}
    THEN {0}
    ELSE {IF user.emailVerified THEN user.id ELSE 0 : user \in FindUserByEmail(email)}

\* validateUser: one lookup and the return
ValidateUser(p, email) ==
    /\ Free(p)
    /\ calls < MaxCalls
    /\ calls' = calls + 1
    /\ \E result \in ValidateUserResult(email) :
          Finish(p, [NoCall EXCEPT !.email = email], "validateUser", TRUE, result)
    /\ UNCHANGED <<events, now, ticks, otps, nextOtpId, issued, consumed, sessionVars>>

(* validateUser on its own: a verified user, a registered user who has not *)
(* verified yet, and an email nobody registered; the verified user logs in *)
(* and out while access tokens are validated                               *)

InitValidate ==
    /\ now = 0
    /\ ticks = 0
    /\ calls = 0
    /\ users = {VerifiedUser(1, "a@x.com", "Password1"), NewUser(2, "b@x.com", "Password2")}
    /\ otps = {}
    /\ nextOtpId = 1
    /\ refreshTokens = {}
    /\ nextTokenId = 1
    /\ pc = [p \in Procs |-> "idle"]
    /\ call = [p \in Procs |-> NoCall]
    /\ ret = NoRet
    /\ issued = {}
    /\ consumed = {}
    /\ rotated = {}
    /\ killed = {}
    /\ events = {}

NextValidate ==
    \/ \E p \in Procs, email \in LoginEmails, password \in Passwords :
          LoginFind(p, email, password)
    \/ \E p \in Procs : LoginSave(p)
    \/ \E p \in Procs, token \in Presentable : Logout(p, token)
    \/ \E p \in Procs, userId \in UserIds : LogoutFromAllDevices(p, userId)
    \/ \E p \in Procs, email \in LoginEmails : ValidateUser(p, email)

SpecValidate == InitValidate /\ [][NextValidate]_vars

\* C35, the result: validateUser returns a user exactly when a user with
\* the email of the payload exists and has emailVerified = true, and the
\* user it returns is that user; otherwise it returns null.
C35_ValidateOutcome ==
    Returned("validateUser") =>
        /\ ret.ok
        /\ ret.out # 0 <=> \E u \in users : u.email = ret.email /\ u.emailVerified
        /\ ret.out # 0 => \E u \in users : u.id = ret.out /\ u.email = ret.email

\* C35, the sessions: a step that leaves users as it is, whatever it does
\* to refresh_tokens, leaves the result of validateUser for every email as
\* it is.
C35_SessionStep ==
    users' = users =>
        \A email \in LoginEmails : ValidateUserResult(email)' = ValidateUserResult(email)

\* C35: validateUser returns the user exactly when the user of the email
\* exists and is verified, whatever the state of the sessions.
C35_ValidateUser == [](C35_ValidateOutcome) /\ [][C35_SessionStep]_vars

\* C35 witness: validateUser returned the verified user although every
\* session of that user is revoked.
C35_Witness ==
    /\ Returned("validateUser") /\ ret.out # 0
    /\ \E r \in refreshTokens : r.userId = ret.out
    /\ \A r \in refreshTokens : r.userId = ret.out => r.revoked


\* ---------------------------------------------------------------------------
\* Session ownership over the whole account life: register, verifyEmail,
\* login and refresh on one store that starts empty
\* ---------------------------------------------------------------------------

NextOnboard ==
    \/ \E p \in Procs, email \in Emails, password \in RegisterPasswords :
          RegisterFind(p, email, password)
    \/ \E p \in Procs : RegisterCreate(p)
    \/ \E p \in Procs : RegisterSave(p)
    \/ \E p \in Procs : OtpCleanup(p)
    \/ \E p \in Procs : OtpFind(p)
    \/ \E p \in Procs : OtpUpdate(p)
    \/ \E p \in Procs : OtpSave(p)
    \/ \E p \in Procs, email \in Emails, code \in Codes : VerifyEmailCleanup(p, email, code)
    \/ \E p \in Procs : VerifyEmailFind(p)
    \/ \E p \in Procs : VerifyEmailUpdate(p)
    \/ \E p \in Procs : VerifyEmailUser(p)
    \/ \E p \in Procs : VerifyEmailMark(p)
    \/ \E p \in Procs, email \in LoginEmails, password \in Passwords :
          LoginFind(p, email, password)
    \/ \E p \in Procs : LoginSave(p)
    \/ \E p \in Procs, token \in Presentable : RefreshFind(p, token)
    \/ \E p \in Procs : RefreshRevoke(p)
    \/ \E p \in Procs : RefreshSave(p)

SpecOnboard == InitAccount /\ [][NextOnboard]_vars

\* C38: every session record, active or revoked, belongs to a user row that
\* exists and has emailVerified = true
C38_SessionsOfVerifiedUsers ==
    \A r \in refreshTokens :
        \E u \in users : u.id = r.userId /\ u.emailVerified

\* C38 witness: the registered account was verified, logged in and refreshed,
\* so the store holds a revoked and an active session of it
C38_Witness ==
    /\ Returned("refresh") /\ ret.ok
    /\ \E r \in refreshTokens : r.revoked
    /\ \E r \in refreshTokens : ~r.revoked
    /\ \E u \in users : u.emailVerified


\* ---------------------------------------------------------------------------
\* The session list and expiry
\* ---------------------------------------------------------------------------

\* C39: no session returned by getActiveSessions is past its expiresAt at the
\* time of the call
C39_NoExpiredListed ==
    Returned("getActiveSessions") =>
        \A i \in DOMAIN ret.out : ~(ret.out[i].expiresAt < now)


\* ---------------------------------------------------------------------------
\* Recovery of an unverified account: resendOtp and verifyEmail after a
\* completed register, with every started call running to its end
\* ---------------------------------------------------------------------------

\* the state a register call leaves behind: the user row, unverified, and
\* the code it issued and delivered
InitRecover ==
    /\ now = 0
    /\ ticks = 0
    /\ calls = 0
    /\ users = {NewUser(1, "a@x.com", "Password1")}
    /\ otps = {NewOtp(1, "a@x.com", 100000, 0)}
    /\ issued = otps
    /\ nextOtpId = 2
    /\ refreshTokens = {}
    /\ nextTokenId = 1
    /\ pc = [p \in Procs |-> "idle"]
    /\ call = [p \in Procs |-> NoCall]
    /\ ret = NoRet
    /\ consumed = {}
    /\ rotated = {}
    /\ killed = {}
    /\ events = {<<"password", 1, "Password1">>, <<"register", 1>>}

NextRecover ==
    \/ \E p \in Procs, email \in Emails : ResendFind(p, email)
    \/ \E p \in Procs : OtpCleanup(p)
    \/ \E p \in Procs : OtpFind(p)
    \/ \E p \in Procs : OtpUpdate(p)
    \/ \E p \in Procs : OtpSave(p)
    \/ \E p \in Procs, email \in Emails, code \in Codes : VerifyEmailCleanup(p, email, code)
    \/ \E p \in Procs : VerifyEmailFind(p)
    \/ \E p \in Procs : VerifyEmailUpdate(p)
    \/ \E p \in Procs : VerifyEmailUser(p)
    \/ \E p \in Procs : VerifyEmailMark(p)
    \/ Lapse

\* every awaited statement of a started call settles and its continuation runs
RecoverFairness ==
    \A p \in Procs :
        /\ WF_vars(OtpCleanup(p))
        /\ WF_vars(OtpFind(p))
        /\ WF_vars(OtpUpdate(p))
        /\ WF_vars(OtpSave(p))
        /\ WF_vars(VerifyEmailFind(p))
        /\ WF_vars(VerifyEmailUpdate(p))
        /\ WF_vars(VerifyEmailUser(p))
        /\ WF_vars(VerifyEmailMark(p))

SpecRecover == InitRecover /\ [][NextRecover]_vars /\ RecoverFairness

\* the record of the last issuance for email
LastIssued(email) ==
    {r \in issued : r.email = email /\ \A s \in issued : s.email = email => s.id <= r.id}

\* code is the code of the last issuance for email, that record is unexpired
\* and it is the only unused record of the email: no other issuance has
\* invalidated it or left a second code beside it
CodeStands(email, code) ==
    \E last \in LastIssued(email) :
        /\ last \in otps
        /\ ~IsExpired(last, now)
        /\ last.hashedOtp = HashOtp(code)
        /\ \A r \in otps : r.email = email /\ ~r.used => r = last

\* once the cooldown since the last issuance has passed, createEmailVerificationOtp
\* inside resendOtp passes the rate-limit check, and its save stores a fresh
\* code; resendOtp then succeeds unless the mail could not be delivered
C40_ResendStep ==
    \A p \in Procs :
        call[p].op = "resendOtp" =>
            /\ pc[p] = "otpFind" /\ ~IssuedWithin(call[p].email, now) /\ OtpFind(p)
                  => pc'[p] = "otpUpdate"
            /\ pc[p] = "otpSave" /\ OtpSave(p)
                  => /\ \E r \in otps' \ otps :
                           r.id = ret'.out /\ ~r.used /\ ~IsExpired(r, now)
                     /\ ret'.ok \/ ret'.msg = "Failed to send OTP. Please try again later."

\* verifyEmail with the code of the last issuance, which still stands, finds
\* that record valid; for a user still unverified it goes on to the update,
\* and the update makes the account verified unless the store rejects it
C40_VerifyStep ==
    \A p \in Procs :
        call[p].op = "verifyEmail" =>
            /\ pc[p] = "verifyEmailFind" /\ CodeStands(call[p].email, call[p].code)
                  /\ VerifyEmailFind(p)
                  => /\ pc'[p] = "verifyEmailUpdate"
                     /\ \E last \in LastIssued(call[p].email) : call'[p].rec = last.id
            /\ pc[p] = "verifyEmailUser" /\ VerifyEmailUser(p)
                  /\ (\E u \in users : u.email = call[p].email /\ ~u.emailVerified)
                  => pc'[p] = "verifyEmailMark"
            /\ pc[p] = "verifyEmailMark" /\ VerifyEmailMark(p)
                  => \/ /\ ret'.ok
                        /\ \A u \in users' : u.email = call[p].email => u.emailVerified
                     \/ ret'.err = QueryFailed

\* every started call returns
C40_Terminates == \A p \in Procs : (pc[p] # "idle") ~> (pc[p] = "idle")

\* C40: a registered, unverified account is never stuck: once the cooldown
\* since the last issuance has elapsed resendOtp succeeds, and verifyEmail
\* with the code it issued succeeds and makes the account verified, provided
\* the store and the delivery are available and no other issuance for the
\* email intervenes; every started call runs to its end
C40_NeverStuck ==
    /\ [][C40_ResendStep]_vars
    /\ [][C40_VerifyStep]_vars
    /\ C40_Terminates

\* C40 witness: after the cooldown resendOtp issued the second code of the
\* account, and verifyEmail with that code has succeeded and verified it
C40_Witness ==
    /\ Returned("verifyEmail") /\ ret.ok
    /\ ret.rec = 2
    /\ \E r \in issued : r.id = 2 /\ r.createdAt >= CooldownSeconds
    /\ \A u \in users : u.emailVerified

====
